---- MODULE Spec2Model ----
(***************************************************************************)
(* State-machine model of the TickTick refresh coordinator                 *)
(* (custom_components/ticktick/coordinator.py), of the API client          *)
(* (custom_components/ticktick/api.py) and of the adapters that use them:  *)
(* the service handlers (services.py), the project sensors (sensor.py)     *)
(* and the calendar (calendar.py).                                         *)
(*                                                                         *)
(* Times are seconds on the local wall clock.  A datetime is a record      *)
(* [tz, t]: tz = "naive" for a datetime without tzinfo (what               *)
(* datetime.now() returns), tz = "aware" for one with an offset, and       *)
(* tz = "none" for Python's None.  Ordering a naive against an aware       *)
(* datetime raises TypeError in Python; the model keeps that.              *)
(***************************************************************************)
EXTENDS Integers, Sequences, FiniteSets, TLC

VARIABLES
    now,                \* the reading datetime.now() would give
    previous_tasks,     \* self._previous_tasks
    notified_due_soon,  \* self._notified_due_soon
    data,               \* coordinator.data: the published TickTickData
    outcome,            \* how the most recently finished refresh ended
    pc,                 \* position of the in-flight _async_update_data
    projects_data,      \* local projects_data
    idx,                \* position of the loop over projects_data
    projects,           \* local projects (insertion-ordered dict)
    all_tasks,          \* local all_tasks (insertion-ordered dict)
    current_task_ids,   \* local current_task_ids
    raised,             \* exceptions the API calls of this refresh raised
    fetched_completed,  \* history: the task records with status 2 that
                        \* the fetches of this refresh returned
    fetched_active,     \* history: the other task records they returned
    fired,              \* events put on the bus by this refresh, in order
    repeat,             \* history: this refresh and the one before both
                        \* succeeded and built the same snapshot
    run_notified,       \* history: ids notified due-soon in their current
                        \* run of refreshes that list them as active
    reentry,            \* history: ids notified due-soon whose run was ended
                        \* by a successful refresh, not yet seen again
    trace,              \* history: the steps the refresh in flight (or the
                        \* last one that ended by itself) took, in order
    api_pc,             \* position of the API client call being followed
    api_op,             \* the method of TickTickApi that was called
    api_requests,       \* the session.request(...) calls it has issued
    api_answer,         \* what the transport answered
    api_outcome,        \* how _request ended
    api_result,         \* how the method ended for its caller
    svc_pc,             \* position of the service handler being followed:
                        \* "api_call" while it awaits the API client,
                        \* "done" once it has returned
    svc_call,           \* the service call it handles, and whether
                        \* _get_coordinator found a coordinator for it
    svc_log,            \* what the handler has done so far, in order
    reading,            \* what the last entity read returned
    provider,           \* the records of the tasks that are active at
                        \* TickTick
    served,             \* history: the task the provider last completed or
                        \* deleted for a service call, and how far the
                        \* refresh that call requested has got
    entities,           \* sensor.py: the project ids of the sensors in the
                        \* list `entities`, in order of creation
    entry               \* how far the set-up of the config entry has got,
                        \* and (history) the ids the coordinator instance
                        \* it replaced had notified as due soon

coordvars == <<now, previous_tasks, notified_due_soon, data, outcome, pc,
               projects_data, idx, projects, all_tasks, current_task_ids,
               raised, fetched_completed, fetched_active,
               fired, repeat, run_notified, reentry, trace>>

apivars == <<api_pc, api_op, api_requests, api_answer, api_outcome,
             api_result>>

svcvars == <<svc_pc, svc_call, svc_log, reading>>

envvars == <<provider, served, entities, entry>>

vars == <<coordvars, apivars, svcvars, envvars>>

-----------------------------------------------------------------------------
(* Constants of the integration *)

DEFAULT_DUE_SOON_MINUTES == 30

EVENT_TASK_CREATED == "ticktick_task_created"
EVENT_TASK_COMPLETED == "ticktick_task_completed"
EVENT_TASK_DUE_SOON == "ticktick_task_due_soon"

TickTickApiError == "TickTickApiError"
TickTickAuthError == "TickTickAuthError"

\* class TickTickAuthError(TickTickApiError): an `except TickTickApiError`
\* clause catches both.
IsTickTickApiError(err) == err \in {TickTickApiError, TickTickAuthError}

IsTickTickAuthError(err) == err = TickTickAuthError

-----------------------------------------------------------------------------
(* What the provider can answer *)

TaskOrder == <<"t1", "t2">>
TaskIds == {TaskOrder[i] : i \in 1..Len(TaskOrder)}

\* Clock readings; the due instant 1830 is beyond the window at 0, exactly
\* at its end at 30, inside it at 600, "now" at 1830 and past at 1860.
Instants == {0, 30, 600, 1830, 1860}

\* A JSON task fragment: keys holds the keys that are present.
RawTask(id, pid, keys, title, dueDate, priority, status) ==
    [id |-> id, projectId |-> pid, keys |-> keys, title |-> title,
     dueDate |-> dueDate, priority |-> priority, status |-> status]

NoString == [fmt |-> "absent", t |-> 0]

RawTasksOf(id, pid) ==
    IF id = "t1"
    THEN { RawTask(id, pid, {}, "", NoString, 0, 0),
           RawTask(id, pid, {"title", "dueDate"},
                   "Water plants", [fmt |-> "invalid", t |-> 0], 0, 0),
           RawTask(id, pid, {"title", "dueDate", "priority", "status"},
                   "Pay rent", [fmt |-> "iso", t |-> 1830], 5, 0),
           RawTask(id, pid, {"title", "dueDate", "status"},
                   "Pay rent", [fmt |-> "iso", t |-> 1830], 0, 2) }
    ELSE { RawTask(id, pid, {"title", "dueDate", "priority", "status"},
                   "Call mom", [fmt |-> "iso", t |-> 1830], 3, 0),
           RawTask(id, pid, {"title", "dueDate", "priority", "status"},
                   "Call mom", [fmt |-> "isoZ", t |-> 1830], 1, 0),
           RawTask(id, pid, {"title", "dueDate", "priority", "status"},
                   "Call mom", [fmt |-> "isoZ", t |-> 1830], 1, 2) }

\* Task ids a project's /data answer may list.
Listable(pid) == IF pid = "p1" THEN {"t2"} ELSE {"t1", "t2"}

OptionalRaw(id, pid) ==
    IF id \in Listable(pid)
    THEN {<<>>} \cup {<<r>> : r \in RawTasksOf(id, pid)}
    ELSE {<<>>}

\* The "tasks" lists GET /project/{pid}/data may return.
TasksDataOf(pid) ==
    {a \o b : a \in OptionalRaw("t1", pid), b \in OptionalRaw("t2", pid)}

RawProject(pid) ==
    IF pid = "p1"
    THEN [id |-> pid, keys |-> {"name"}, name |-> "Inbox"]
    ELSE [id |-> pid, keys |-> {}, name |-> ""]

\* The lists GET /project may return.
ProjectLists ==
    { <<>>, <<RawProject("p2")>>, <<RawProject("p1"), RawProject("p2")>> }

ApiErrors == {TickTickApiError, TickTickAuthError}

-----------------------------------------------------------------------------
(* Domain model *)

None == [tz |-> "none", t |-> 0]

\* dict.get(key, default)
Get(d, key, default) == IF key \in d.keys THEN d[key] ELSE default

\* Mutant: a text that is no ISO date is not dropped but read as a date.
ParseDueDate_ReadsAnything(s) ==
    CASE s.fmt = "isoZ" -> [tz |-> "aware", t |-> s.t]
      [] OTHER -> [tz |-> "naive", t |-> s.t]

\* datetime.fromisoformat(s.replace("Z", "+00:00")) under
\* contextlib.suppress(ValueError, TypeError)
ParseDueDate(s) ==
    CASE s.fmt = "iso" -> [tz |-> "naive", t |-> s.t]
      [] s.fmt = "isoZ" -> [tz |-> "aware", t |-> s.t]
      [] OTHER -> None

\* datetime.isoformat()
IsoFormat(d) ==
    IF d.tz = "aware" THEN [fmt |-> "iso+00:00", t |-> d.t]
                      ELSE [fmt |-> "iso", t |-> d.t]

\* TickTickTask.from_api
from_api(raw) ==
    [id |-> raw.id,
     project_id |-> raw.projectId,
     title |-> Get(raw, "title", ""),
     due_date |-> IF "dueDate" \in raw.keys THEN ParseDueDate(raw.dueDate)
                                           ELSE None,
     priority |-> Get(raw, "priority", 0),
     is_all_day |-> Get(raw, "isAllDay", FALSE),
     status |-> Get(raw, "status", 0)]

\* d[key] = value on an insertion-ordered dict kept as a sequence of
\* records with an id field: an existing key keeps its position.
DictSet(d, value) ==
    IF \E i \in 1..Len(d) : d[i].id = value.id
    THEN [i \in 1..Len(d) |-> IF d[i].id = value.id THEN value ELSE d[i]]
    ELSE Append(d, value)

Keys(d) == {d[i].id : i \in 1..Len(d)}

Lookup(d, id) == d[CHOOSE i \in 1..Len(d) : d[i].id = id]

\* Iteration order of a set of task ids.
IterOrder(S) == SelectSeq(TaskOrder, LAMBDA id : id \in S)

-----------------------------------------------------------------------------
(* _fire_task_events *)

EventNone == [fmt |-> "None", t |-> 0]

\* Mutant: the due date is left out of the payload.
CreatedPayload_NoDueDate(task) ==
    [type |-> EVENT_TASK_CREATED,
     task_id |-> task.id,
     project_id |-> task.project_id,
     title |-> task.title,
     due_date |-> EventNone,
     priority |-> task.priority]

CreatedPayload(task) ==
    [type |-> EVENT_TASK_CREATED,
     task_id |-> task.id,
     project_id |-> task.project_id,
     title |-> task.title,
     due_date |-> IF task.due_date # None THEN IsoFormat(task.due_date)
                                         ELSE EventNone,
     priority |-> task.priority]

CompletedPayload(task_id, at) ==
    [type |-> EVENT_TASK_COMPLETED,
     task_id |-> task_id,
     completed_at |-> IsoFormat([tz |-> "naive", t |-> at])]

\* Mutant: every current id counts as new.
new_task_ids_All(current, previous) == current

new_task_ids(current, previous) == current \ previous

\* Mutant: the difference is taken the wrong way round.
completed_task_ids_Swapped(current, previous) == current \ previous

completed_task_ids(current, previous) == previous \ current

\* The events _fire_task_events puts on the bus, in order.
fire_task_events(current, tasks, previous, at) ==
    LET new == SelectSeq(IterOrder(new_task_ids(current, previous)),
                         LAMBDA id : id \in Keys(tasks))
        gone == IterOrder(completed_task_ids(current, previous))
    IN [i \in 1..Len(new) |-> CreatedPayload(Lookup(tasks, new[i]))]
       \o [i \in 1..Len(gone) |-> CompletedPayload(gone[i], at)]

-----------------------------------------------------------------------------
(* _check_due_soon *)

due_soon_minutes == DEFAULT_DUE_SOON_MINUTES

\* now + timedelta(minutes=due_soon_minutes)
threshold(at) == at + due_soon_minutes * 60

\* Python refuses to order a naive datetime (datetime.now()) against an
\* aware one: the comparison raises TypeError.
RaisesTypeError(due) == due.tz = "aware"

\* now < task.due_date <= threshold
InDueSoonWindow(due, at) == at < due.t /\ due.t <= threshold(at)

\* int((task.due_date - now).total_seconds() / 60)
minutes_until_due(due, at) == (due.t - at) \div 60

DueSoonPayload(task, at) ==
    [type |-> EVENT_TASK_DUE_SOON,
     task_id |-> task.id,
     project_id |-> task.project_id,
     title |-> task.title,
     due_date |-> IsoFormat(task.due_date),
     minutes_until_due |-> minutes_until_due(task.due_date, at)]

\* The loop over tasks.values(), from position i on.  raised = TRUE when
\* the comparison raised TypeError: the loop stops there.
RECURSIVE ScanDueSoon(_, _, _, _, _)
ScanDueSoon(tasks, i, notified, events, at) ==
    IF i > Len(tasks)
    THEN [raised |-> FALSE, notified |-> notified, events |-> events]
    ELSE LET task == tasks[i] IN
         IF task.due_date = None
         THEN ScanDueSoon(tasks, i + 1, notified, events, at)
         ELSE IF RaisesTypeError(task.due_date)
         THEN [raised |-> TRUE, notified |-> notified, events |-> events]
         ELSE IF InDueSoonWindow(task.due_date, at) /\ task.id \notin notified
         THEN ScanDueSoon(tasks, i + 1, notified \cup {task.id},
                          Append(events, DueSoonPayload(task, at)), at)
         ELSE ScanDueSoon(tasks, i + 1, notified, events, at)

\* Mutant: the clean-up forgets every id.
Prune_Clear(notified, tasks) == {}

\* Mutant: the clean-up is missing.
Prune_Keep(notified, tasks) == notified

\* self._notified_due_soon &= set(tasks.keys())
Prune(notified, tasks) == notified \cap Keys(tasks)

check_due_soon(tasks, notified, at) ==
    LET scan == ScanDueSoon(tasks, 1, notified, <<>>, at)
    IN IF scan.raised THEN scan
       ELSE [scan EXCEPT !.notified = Prune(scan.notified, tasks)]

-----------------------------------------------------------------------------
(* TickTickApi *)

\* The methods class TickTickApi defines.
ApiMethods ==
    {"get_projects", "get_project", "get_project_with_tasks", "get_task",
     "create_task", "update_task", "complete_task", "delete_task",
     "create_subtask", "get_user_info"}

\* Python values: None, and what response.json() gives.  Only the type and
\* the length of a parsed body matter to the client.
PyNone == [type |-> "None", len |-> 0]

EmptyDict == [k \in {} |-> ""]

\* Keyword arguments are records; an argument left at its default None is
\* not in the record.
Has(a, k) == k \in DOMAIN a

\* `if content:` -- neither None nor the empty string.
Truthy(a, k) == Has(a, k) /\ a[k] # ""

\* The json bodies the methods build (lines 99-109, 123-135, 156-163).
CreateTaskData(a) ==
    [title |-> a.title, projectId |-> a.project_id, priority |-> a.priority]
    @@ (IF Truthy(a, "content") THEN [content |-> a.content] ELSE EmptyDict)
    @@ (IF Truthy(a, "due_date")
        THEN [dueDate |-> a.due_date, isAllDay |-> a.all_day]
        ELSE EmptyDict)

UpdateTaskData(a) ==
    [id |-> a.task_id, projectId |-> a.project_id]
    @@ (IF Has(a, "title") THEN [title |-> a.title] ELSE EmptyDict)
    @@ (IF Has(a, "content") THEN [content |-> a.content] ELSE EmptyDict)
    @@ (IF Has(a, "due_date") THEN [dueDate |-> a.due_date] ELSE EmptyDict)
    @@ (IF Has(a, "priority") THEN [priority |-> a.priority] ELSE EmptyDict)

CreateSubtaskData(a) ==
    [title |-> a.title, projectId |-> a.project_id,
     parentId |-> a.parent_task_id]
    @@ (IF Truthy(a, "content") THEN [content |-> a.content] ELSE EmptyDict)

HttpRequest(method, endpoint, json) ==
    [method |-> method, endpoint |-> endpoint, json |-> json]

\* The self._request(method, endpoint, data) each method makes; an
\* endpoint is the sequence of the pieces of its f-string.
RequestOf(op, a) ==
    CASE op \in {"get_projects", "get_user_info"} ->
           HttpRequest("GET", <<"/project">>, PyNone)
      [] op = "get_project" ->
           HttpRequest("GET", <<"/project/", a.project_id>>, PyNone)
      [] op = "get_project_with_tasks" ->
           HttpRequest("GET", <<"/project/", a.project_id, "/data">>, PyNone)
      [] op = "get_task" ->
           HttpRequest("GET", <<"/project/", a.project_id,
                                "/task/", a.task_id>>, PyNone)
      [] op = "create_task" ->
           HttpRequest("POST", <<"/task">>, CreateTaskData(a))
      [] op = "update_task" ->
           HttpRequest("POST", <<"/task/", a.task_id>>, UpdateTaskData(a))
      [] op = "complete_task" ->
           HttpRequest("POST", <<"/project/", a.project_id,
                                 "/task/", a.task_id, "/complete">>, PyNone)
      [] op = "delete_task" ->
           HttpRequest("DELETE", <<"/project/", a.project_id,
                                   "/task/", a.task_id>>, PyNone)
      [] op = "create_subtask" ->
           HttpRequest("POST", <<"/task">>, CreateSubtaskData(a))

\* Arguments a caller may pass to each method.
ArgsOf(op) ==
    CASE op \in {"get_projects", "get_user_info"} -> {EmptyDict}
      [] op \in {"get_project", "get_project_with_tasks"} ->
           {[project_id |-> "p1"]}
      [] op \in {"get_task", "complete_task", "delete_task"} ->
           {[project_id |-> "p1", task_id |-> "t1"]}
      [] op = "create_task" ->
           {[title |-> "Buy milk", project_id |-> "p1", priority |-> 0,
             all_day |-> FALSE],
            [title |-> "Buy milk", project_id |-> "p1", priority |-> 5,
             all_day |-> TRUE, content |-> "2 l", due_date |-> "1830"]}
      [] op = "update_task" ->
           {[task_id |-> "t1", project_id |-> "p1"],
            [task_id |-> "t1", project_id |-> "p1", title |-> "",
             priority |-> 1]}
      [] op = "create_subtask" ->
           {[parent_task_id |-> "t1", project_id |-> "p1",
             title |-> "Step 1"]}
      [] OTHER -> {[project_id |-> "p1", task_id |-> "t1"]}

\* What the transport does with a request: an HTTP response, or an
\* exception raised by session.request.
Response(status, body) ==
    [kind |-> "response", status |-> status, body |-> body, exc |-> ""]

Failure(exc) ==
    [kind |-> "failure", status |-> 0, body |-> "", exc |-> exc]

NoAnswer == [kind |-> "none", status |-> 0, body |-> "", exc |-> ""]

\* aiohttp's exceptions for DNS/TCP failures, TLS failures and socket
\* timeouts are subclasses of aiohttp.ClientError.  The total timeout of a
\* request raises asyncio.TimeoutError (the builtin TimeoutError), which
\* is not.
ClientErrors ==
    {"ClientConnectorError", "ClientSSLError", "ServerTimeoutError"}

TransportExceptions == ClientErrors \cup {"TimeoutError"}

IsClientError(exc) == exc \in ClientErrors

JsonBodies == {"[]", "[{}]", "{}"}

ErrorBodies == {"", "Internal Server Error"}

\* Bodies of statuses below 400 other than 204 are JSON texts.
Answers ==
    {Response(st, b) : st \in {200, 201}, b \in JsonBodies}
    \cup {Response(204, "")}
    \cup {Response(st, b) : st \in {400, 404, 500}, b \in ErrorBodies}
    \cup {Response(401, ""), Response(429, "")}
    \cup {Failure(exc) : exc \in TransportExceptions}

\* response.json()
ParseJson(text) ==
    CASE text = "[]" -> [type |-> "list", len |-> 0]
      [] text = "[{}]" -> [type |-> "list", len |-> 1]
      [] text = "{}" -> [type |-> "dict", len |-> 0]

\* How a call ends: raise err(message), or return value.  A message is
\* the sequence of the pieces of its f-string.
Raise(err, message) ==
    [kind |-> "raise", err |-> err, message |-> message, value |-> PyNone]

Return(value) ==
    [kind |-> "return", err |-> "", message |-> <<>>, value |-> value]

NoOutcome == [kind |-> "none", err |-> "", message |-> <<>>, value |-> PyNone]

\* Mutant: the 429 test is missing, so 429 is reported as a generic error.
request_No429(answer) ==
    IF answer.kind = "failure"
    THEN IF IsClientError(answer.exc)
         THEN Raise(TickTickApiError, <<"Connection error: ", answer.exc>>)
         ELSE Raise(answer.exc, <<answer.exc>>)
    ELSE IF answer.status = 401
    THEN Raise(TickTickAuthError, <<"Invalid or expired access token">>)
    ELSE IF answer.status >= 400
    THEN Raise(TickTickApiError,
               <<"API error ", ToString(answer.status), ": ", answer.body>>)
    ELSE IF answer.status = 204 THEN Return(PyNone)
    ELSE Return(ParseJson(answer.body))

\* TickTickApi._request from the point where session.request has
\* answered.  `except aiohttp.ClientError` wraps the transport's
\* ClientErrors; any other exception leaves _request as it is, and so do
\* the API errors raised inside the try (they are no ClientError).
request(answer) ==
    IF answer.kind = "failure"
    THEN IF IsClientError(answer.exc)
         THEN Raise(TickTickApiError, <<"Connection error: ", answer.exc>>)
         ELSE Raise(answer.exc, <<answer.exc>>)
    ELSE IF answer.status = 401
    THEN Raise(TickTickAuthError, <<"Invalid or expired access token">>)
    ELSE IF answer.status = 429
    THEN Raise(TickTickApiError, <<"Rate limit exceeded">>)
    ELSE IF answer.status >= 400
    THEN Raise(TickTickApiError,
               <<"API error ", ToString(answer.status), ": ", answer.body>>)
    ELSE IF answer.status = 204 THEN Return(PyNone)
    ELSE Return(ParseJson(answer.body))

\* What the method makes of the outcome of its _request: complete_task
\* and delete_task return nothing, get_user_info returns the number of
\* projects (len(None) raises TypeError), the others return it as it is.
ResultOf(op, out) ==
    IF out.kind = "raise" THEN out
    ELSE IF op \in {"complete_task", "delete_task"} THEN Return(PyNone)
    ELSE IF op = "get_user_info"
    THEN IF out.value.type = "None"
         THEN Raise("TypeError", <<"object of type 'NoneType' has no len()">>)
         ELSE Return([type |-> "project_count", len |-> out.value.len])
    ELSE out

ApiInit ==
    /\ api_pc = "idle"
    /\ api_op = ""
    /\ api_requests = <<>>
    /\ api_answer = NoAnswer
    /\ api_outcome = NoOutcome
    /\ api_result = NoOutcome

\* A caller invokes a method of the client: it runs up to the await of
\* session.request.
ApiCall(op, args) ==
    /\ api_pc # "request"
    /\ op \in ApiMethods
    /\ api_pc' = "request"
    /\ api_op' = op
    /\ api_requests' = <<RequestOf(op, args)>>
    /\ api_answer' = NoAnswer
    /\ api_outcome' = NoOutcome
    /\ api_result' = NoOutcome

\* A caller invokes a method the class does not define: the attribute
\* lookup raises AttributeError and nothing is sent.
ApiCallMissing(op) ==
    /\ api_pc # "request"
    /\ op \notin ApiMethods
    /\ api_pc' = "done"
    /\ api_op' = op
    /\ api_requests' = <<>>
    /\ api_answer' = NoAnswer
    /\ api_outcome' = NoOutcome
    /\ api_result' = Raise("AttributeError",
                           <<"'TickTickApi' object has no attribute '",
                             op, "'">>)

\* Mutant: an answer that makes _request raise is followed by a second
\* request.
RequestCompletes_Retry(answer) ==
    /\ api_pc = "request"
    /\ api_answer' = answer
    /\ IF request(answer).kind = "raise" /\ Len(api_requests) < 2
       THEN /\ api_pc' = "request"
            /\ api_requests' = Append(api_requests, api_requests[1])
            /\ UNCHANGED <<api_outcome, api_result>>
       ELSE /\ api_pc' = "done"
            /\ api_outcome' = request(answer)
            /\ api_result' = ResultOf(api_op, request(answer))
            /\ UNCHANGED api_requests
    /\ UNCHANGED api_op

\* The transport answers the request in flight; _request and the method
\* run to their end.
RequestCompletes(answer) ==
    /\ api_pc = "request"
    /\ api_pc' = "done"
    /\ api_answer' = answer
    /\ api_outcome' = request(answer)
    /\ api_result' = ResultOf(api_op, request(answer))
    /\ UNCHANGED <<api_op, api_requests>>

-----------------------------------------------------------------------------
(* services.py: what async_setup_services registers *)

\* The services registered at lines 220-253.
Services ==
    {"create_task", "complete_task", "delete_task", "update_task",
     "create_subtask"}

\* The vol.Required keys of the schema each service is registered with;
\* no schema, no keys.
RequiredKeys(service) ==
    CASE service = "create_task" -> {"title"}
      [] service \in {"complete_task", "delete_task", "update_task"} ->
           {"task_id", "project_id"}
      [] service = "create_subtask" ->
           {"parent_task_id", "project_id", "title"}
      [] OTHER -> {}

PRIORITY_TO_INT(name) ==
    CASE name = "none" -> 0
      [] name = "low" -> 1
      [] name = "medium" -> 3
      [] name = "high" -> 5

\* call.data.get(key, default)
DataGet(d, key, default) == IF key \in DOMAIN d THEN d[key] ELSE default

\* A value of call.data, passed on when the key is there (None otherwise).
Pass(d, key, as) == IF key \in DOMAIN d THEN as :> d[key] ELSE EmptyDict

NoCall == [service |-> "", data |-> EmptyDict, coordinator |-> FALSE]

NoReading == [entity |-> "", attribute |-> "", value |-> PyNone]

SvcInit ==
    /\ svc_pc = "idle"
    /\ svc_call = NoCall
    /\ svc_log = <<>>
    /\ reading = NoReading

-----------------------------------------------------------------------------
(* _async_update_data *)

\* Mutant: the status test never holds, so nothing is passed over.
IsCompleted_Never(task_data) == FALSE

\* if task_data.get("status") == 2: continue
IsCompleted(task_data) == Get(task_data, "status", 0) = 2

\* The tasks list built for one project.
ProjectTasks(tasks_data) ==
    LET kept == SelectSeq(tasks_data, LAMBDA r : ~IsCompleted(r))
    IN [i \in 1..Len(kept) |-> from_api(kept[i])]

RECURSIVE PutAll(_, _, _)
PutAll(d, tasks, i) ==
    IF i > Len(tasks) THEN d ELSE PutAll(DictSet(d, tasks[i]), tasks, i + 1)

TickTickProject(project_data, tasks) ==
    [id |-> project_data.id,
     name |-> Get(project_data, "name", "Unknown"),
     tasks |-> tasks]

TickTickData(projs, tasks) == [projects |-> projs, tasks |-> tasks]

NoData == [projects |-> <<>>, tasks |-> <<>>]

\* The sensor platform is not set up yet, and the provider holds no task.
NoServed == [task |-> "", phase |-> "none", inflight |-> FALSE, before |-> 0]

EnvInit ==
    /\ provider = {}
    /\ served = NoServed
    /\ entities = <<>>
    /\ entry = [state |-> "none", earlier |-> {}]

Init ==
    /\ now = 0
    /\ previous_tasks = {}
    /\ notified_due_soon = {}
    /\ data = NoData
    /\ outcome = "none"
    /\ pc = "idle"
    /\ projects_data = <<>>
    /\ idx = 0
    /\ projects = <<>>
    /\ all_tasks = <<>>
    /\ current_task_ids = {}
    /\ raised = <<>>
    /\ fetched_completed = {}
    /\ fetched_active = {}
    /\ fired = <<>>
    /\ repeat = FALSE
    /\ run_notified = {}
    /\ reentry = {}
    /\ trace = <<>>
    /\ ApiInit
    /\ SvcInit
    /\ EnvInit

\* Mutant: only the Auth clause is there.
OuterHandler_AuthOnly(err) ==
    IF IsTickTickAuthError(err) THEN "update_failed" ELSE "exception"

\* The except clauses of lines 186-189: what the refresh ends as when
\* err leaves the try block.
OuterHandler(err) ==
    IF IsTickTickAuthError(err) THEN "update_failed"
    ELSE IF IsTickTickApiError(err) THEN "update_failed"
    ELSE "exception"

DueSoonIds(events) ==
    {events[i].task_id : i \in {j \in 1..Len(events) :
                                   events[j].type = EVENT_TASK_DUE_SOON}}

\* Mutant: the snapshot is handed back before the notifications go out.
FinishTrace_ReturnFirst(events, scan) ==
    (IF scan.raised THEN <<>> ELSE <<"return">>)
    \o [i \in 1..Len(events) |-> events[i].type]
    \o <<"set_previous">>
    \o [i \in 1..Len(scan.events) |-> scan.events[i].type]
    \o (IF scan.raised THEN <<>> ELSE <<"prune">>)

\* The steps of lines 177-184 in the order the statements run:
\* _fire_task_events (178) fires the created events, then the completed
\* ones; line 179 replaces _previous_tasks; _check_due_soon (182) fires the
\* due-soon events and then prunes _notified_due_soon; line 184 returns the
\* snapshot, which the host publishes.  A TypeError raised by the scan
\* ends the steps there.
FinishTrace(events, scan) ==
    [i \in 1..Len(events) |-> events[i].type]
    \o <<"set_previous">>
    \o [i \in 1..Len(scan.events) |-> scan.events[i].type]
    \o (IF scan.raised THEN <<>> ELSE <<"prune", "return">>)

\* Lines 177-184: everything after the last fetch runs without a
\* suspension point.  An exception that is neither UpdateFailed nor an API
\* error leaves _async_update_data before the return; the host then keeps
\* the previous data and marks the update as failed.
Finish(projs, tasks, ids, steps) ==
    LET events == fire_task_events(ids, tasks, previous_tasks, now)
        scan == check_due_soon(tasks, notified_due_soon, now)
        snapshot == TickTickData(projs, tasks)
    IN /\ fired' = events \o scan.events
       /\ trace' = steps \o FinishTrace(events, scan)
       /\ previous_tasks' = ids
       /\ notified_due_soon' = scan.notified
       /\ data' = IF scan.raised THEN data ELSE snapshot
       /\ outcome' = IF scan.raised THEN "exception" ELSE "success"
       /\ repeat' = (~scan.raised /\ outcome = "success" /\ data = snapshot)
       /\ run_notified' = (run_notified \cap ids) \cup DueSoonIds(scan.events)
       /\ reentry' = (reentry \ ids) \cup
                     (IF scan.raised THEN {} ELSE run_notified \ ids)
       /\ pc' = "idle"
       /\ idx' = 0
       /\ projects_data' = <<>>

\* The coordinator is asked to refresh (timer tick, first refresh, or a
\* refresh request); at most one refresh is in flight.
RefreshStart ==
    /\ pc = "idle"
    /\ pc' = "get_projects"
    /\ projects_data' = <<>>
    /\ idx' = 0
    /\ projects' = <<>>
    /\ all_tasks' = <<>>
    /\ current_task_ids' = {}
    /\ raised' = <<>>
    /\ fetched_completed' = {}
    /\ fetched_active' = {}
    /\ fired' = <<>>
    /\ trace' = <<>>
    /\ UNCHANGED <<now, previous_tasks, notified_due_soon, data, outcome,
                   repeat, run_notified, reentry>>

StartRefresh ==
    /\ RefreshStart
    /\ UNCHANGED <<apivars, svcvars, envvars>>

\* await self.api.get_projects() returns a list.
GetProjectsReturn(resp) ==
    /\ pc = "get_projects"
    /\ UNCHANGED <<now, projects, all_tasks, current_task_ids, raised,
                   fetched_completed, fetched_active>>
    /\ UNCHANGED <<apivars, svcvars, envvars>>
    /\ IF Len(resp) = 0
       THEN Finish(<<>>, <<>>, {}, <<"get_projects">>)
       ELSE /\ pc' = "get_project_with_tasks"
            /\ projects_data' = resp
            /\ idx' = 1
            /\ trace' = <<"get_projects">>
            /\ UNCHANGED <<previous_tasks, notified_due_soon, data, outcome,
                           fired, repeat, run_notified, reentry>>

\* await self.api.get_projects() raises: nothing inside the try catches
\* it, so the clauses of lines 186-189 decide how the refresh ends.
GetProjectsRaise(err) ==
    /\ pc = "get_projects"
    /\ raised' = Append(raised, [call |-> "get_projects", err |-> err])
    /\ pc' = "idle"
    /\ outcome' = OuterHandler(err)
    /\ repeat' = FALSE
    /\ trace' = <<"get_projects">>
    /\ UNCHANGED <<now, previous_tasks, notified_due_soon, data,
                   projects_data, idx, projects, all_tasks, current_task_ids,
                   fetched_completed, fetched_active, fired, run_notified,
                   reentry>>
    /\ UNCHANGED <<apivars, svcvars, envvars>>

\* One pass of the loop body of lines 146-175, from the point where
\* tasks_data is known.
ProcessProject(tasks_data) ==
    LET project_data == projects_data[idx]
        tasks == ProjectTasks(tasks_data)
        projs == DictSet(projects, TickTickProject(project_data, tasks))
        all == PutAll(all_tasks, tasks, 1)
        ids == current_task_ids \cup Keys(tasks)
        steps == Append(trace, "get_project_with_tasks")
    IN /\ projects' = projs
       /\ all_tasks' = all
       /\ fetched_completed' =
              fetched_completed \cup
              {tasks_data[i] : i \in {j \in 1..Len(tasks_data) :
                                        /\ "status" \in tasks_data[j].keys
                                        /\ tasks_data[j].status = 2}}
       /\ fetched_active' =
              fetched_active \cup
              {tasks_data[i] : i \in {j \in 1..Len(tasks_data) :
                                        ~ /\ "status" \in tasks_data[j].keys
                                          /\ tasks_data[j].status = 2}}
       /\ current_task_ids' = ids
       /\ IF idx = Len(projects_data)
          THEN Finish(projs, all, ids, steps)
          ELSE /\ idx' = idx + 1
               /\ trace' = steps
               /\ UNCHANGED <<pc, projects_data, previous_tasks,
                              notified_due_soon, data, outcome, fired,
                              repeat, run_notified, reentry>>

\* await self.api.get_project_with_tasks(project_id) returns.
GetProjectWithTasksReturn(tasks_data) ==
    /\ pc = "get_project_with_tasks"
    /\ tasks_data \in TasksDataOf(projects_data[idx].id)
    /\ ProcessProject(tasks_data)
    /\ UNCHANGED <<now, raised>>
    /\ UNCHANGED <<apivars, svcvars, envvars>>

\* await self.api.get_project_with_tasks(project_id) raises: the clause
\* `except TickTickApiError` of line 155 sets tasks_data = [] for every
\* exception of that class, TickTickAuthError included.
GetProjectWithTasksRaise(err) ==
    /\ pc = "get_project_with_tasks"
    /\ IsTickTickApiError(err)
    /\ raised' = Append(raised, [call |-> projects_data[idx].id,
                                 err |-> err])
    /\ ProcessProject(<<>>)
    /\ UNCHANGED now
    /\ UNCHANGED <<apivars, svcvars, envvars>>

\* Mutant: a cancelled refresh publishes what it has fetched so far.
Cancel_Publish ==
    /\ pc # "idle"
    /\ pc' = "idle"
    /\ outcome' = "cancelled"
    /\ data' = TickTickData(projects, all_tasks)
    /\ repeat' = FALSE
    /\ projects_data' = <<>>
    /\ idx' = 0
    /\ projects' = <<>>
    /\ all_tasks' = <<>>
    /\ current_task_ids' = {}
    /\ trace' = <<>>
    /\ UNCHANGED <<now, previous_tasks, notified_due_soon, raised,
                   fetched_completed, fetched_active, fired, run_notified,
                   reentry>>
    /\ UNCHANGED <<apivars, svcvars, envvars>>

\* The host cancels the in-flight refresh: CancelledError is raised at the
\* await the coroutine is suspended in.  It is no TickTickApiError, so no
\* except clause of _async_update_data catches it; the frame and its
\* locals are dropped and nothing is returned.
Cancel ==
    /\ pc # "idle"
    /\ pc' = "idle"
    /\ outcome' = "cancelled"
    /\ repeat' = FALSE
    /\ projects_data' = <<>>
    /\ idx' = 0
    /\ projects' = <<>>
    /\ all_tasks' = <<>>
    /\ current_task_ids' = {}
    /\ raised' = <<>>
    /\ fetched_completed' = {}
    /\ fetched_active' = {}
    /\ trace' = <<>>
    /\ UNCHANGED <<now, previous_tasks, notified_due_soon, data, fired,
                   run_notified, reentry>>
    /\ UNCHANGED <<apivars, svcvars, envvars>>

\* Time passes.
Tick ==
    /\ \E t \in Instants : t > now /\ now' = t
    /\ UNCHANGED <<previous_tasks, notified_due_soon, data, outcome, pc,
                   projects_data, idx, projects, all_tasks, current_task_ids,
                   raised, fetched_completed, fetched_active, fired, repeat,
                   run_notified, reentry, trace>>
    /\ UNCHANGED <<apivars, svcvars, envvars>>

Next ==
    \/ StartRefresh
    \/ \E resp \in ProjectLists : GetProjectsReturn(resp)
    \/ \E err \in ApiErrors : GetProjectsRaise(err)
    \/ \E pid \in {"p1", "p2"} : \E tasks_data \in TasksDataOf(pid) :
           GetProjectWithTasksReturn(tasks_data)
    \/ \E err \in ApiErrors : GetProjectWithTasksRaise(err)
    \/ Cancel
    \/ Tick

Spec == Init /\ [][Next]_vars

-----------------------------------------------------------------------------
(* The API client on its own *)

ClientCall(op, args) ==
    /\ ApiCall(op, args)
    /\ UNCHANGED <<coordvars, svcvars, envvars>>

ClientCallMissing(op) ==
    /\ ApiCallMissing(op)
    /\ UNCHANGED <<coordvars, svcvars, envvars>>

ClientRequestCompletes(answer) ==
    /\ RequestCompletes(answer)
    /\ UNCHANGED <<coordvars, svcvars, envvars>>

\* Methods callers of the client use: those of the class, and the
\* complete_subtask the tests call (tests/test_api.py:178-191).
CalledMethods == ApiMethods \cup {"complete_subtask"}

ApiNext ==
    \/ \E op \in ApiMethods : \E args \in ArgsOf(op) : ClientCall(op, args)
    \/ \E op \in CalledMethods : ClientCallMissing(op)
    \/ \E answer \in Answers : ClientRequestCompletes(answer)

ApiSpec == Init /\ [][ApiNext]_vars

-----------------------------------------------------------------------------
(* services.py: the handlers *)

Effect(effect, what) == [effect |-> effect, what |-> what]

\* str.lower() of a project name
Lower(name) ==
    CASE name = "Inbox" -> "inbox"
      [] name = "Unknown" -> "unknown"
      [] OTHER -> name

\* Lines 107-116: the project named "inbox", else the first project, else
\* nothing ("" stands for None).
DefaultProject(snapshot) ==
    LET ps == snapshot.projects
        inbox == {i \in 1..Len(ps) : Lower(ps[i].name) = "inbox"}
    IN IF inbox # {}
       THEN ps[CHOOSE i \in inbox : \A j \in inbox : i <= j].id
       ELSE IF Len(ps) > 0 THEN ps[1].id ELSE ""

\* The keyword arguments each handler passes to the API client.
HandlerArgs(call, snapshot) ==
    LET d == call.data IN
    CASE call.service = "create_task" ->
           [title |-> d.title,
            project_id |-> IF Truthy(d, "project_id") THEN d.project_id
                           ELSE DefaultProject(snapshot),
            priority |-> PRIORITY_TO_INT(DataGet(d, "priority", "none")),
            all_day |-> DataGet(d, "all_day", FALSE)]
           @@ Pass(d, "content", "content") @@ Pass(d, "due_date", "due_date")
      [] call.service \in {"complete_task", "delete_task"} ->
           [project_id |-> d.project_id, task_id |-> d.task_id]
      [] call.service = "update_task" ->
           [task_id |-> d.task_id, project_id |-> d.project_id]
           @@ Pass(d, "title", "title") @@ Pass(d, "content", "content")
           @@ Pass(d, "due_date", "due_date")
           @@ (IF Truthy(d, "priority")
               THEN [priority |-> PRIORITY_TO_INT(d.priority)]
               ELSE EmptyDict)
      [] call.service = "create_subtask" ->
           [parent_task_id |-> d.parent_task_id, project_id |-> d.project_id,
            title |-> d.title]
           @@ Pass(d, "content", "content")

\* Validated service calls.
ServiceCalls ==
    { [service |-> "create_task",
       data |-> [title |-> "Buy milk", all_day |-> FALSE]],
      [service |-> "create_task",
       data |-> [title |-> "Buy milk", project_id |-> "p2",
                 priority |-> "high", all_day |-> FALSE]],
      [service |-> "complete_task",
       data |-> [task_id |-> "t2", project_id |-> "p1"]],
      [service |-> "delete_task",
       data |-> [task_id |-> "t2", project_id |-> "p1"]],
      [service |-> "update_task",
       data |-> [task_id |-> "t2", project_id |-> "p1",
                 priority |-> "low"]],
      [service |-> "create_subtask",
       data |-> [parent_task_id |-> "t2", project_id |-> "p1",
                 title |-> "Step 1"]] }

\* Mutant: the refresh is requested before the API call is made.
ServiceCall_RefreshFirst(call, has_coordinator) ==
    /\ svc_pc # "api_call"
    /\ call.service \in Services
    /\ svc_call' = [service |-> call.service, data |-> call.data,
                    coordinator |-> has_coordinator]
    /\ IF ~has_coordinator
       THEN /\ svc_log' = <<Effect("log_error",
                                   "TickTick integration not set up")>>
            /\ svc_pc' = "done"
            /\ UNCHANGED apivars
       ELSE LET args == HandlerArgs(call, data) IN
            IF call.service = "create_task" /\ ~Truthy(args, "project_id")
            THEN /\ svc_log' =
                      <<Effect("log_error",
                               "No project specified and no default project found")>>
                 /\ svc_pc' = "done"
                 /\ UNCHANGED apivars
            ELSE /\ ApiCall(call.service, args)
                 /\ svc_log' = <<Effect("request_refresh", ""),
                                 Effect("api_call", call.service)>>
                 /\ svc_pc' = "api_call"
    /\ UNCHANGED <<coordvars, reading, envvars>>

\* A service is called: its handler runs up to the await of the API call
\* (or to its end, when it returns before it).
ServiceCall(call, has_coordinator) ==
    /\ svc_pc # "api_call"
    /\ call.service \in Services
    /\ svc_call' = [service |-> call.service, data |-> call.data,
                    coordinator |-> has_coordinator]
    /\ IF ~has_coordinator
       THEN /\ svc_log' = <<Effect("log_error",
                                   "TickTick integration not set up")>>
            /\ svc_pc' = "done"
            /\ UNCHANGED apivars
       ELSE LET args == HandlerArgs(call, data) IN
            IF call.service = "create_task" /\ ~Truthy(args, "project_id")
            THEN /\ svc_log' =
                      <<Effect("log_error",
                               "No project specified and no default project found")>>
                 /\ svc_pc' = "done"
                 /\ UNCHANGED apivars
            ELSE /\ ApiCall(call.service, args)
                 /\ svc_log' = <<Effect("api_call", call.service)>>
                 /\ svc_pc' = "api_call"
    /\ UNCHANGED <<coordvars, reading, envvars>>

\* Mutant: the refresh is requested whether the API call failed or not.
ServiceApiCompletes_AlwaysRefresh(answer) ==
    /\ svc_pc = "api_call"
    /\ RequestCompletes(answer)
    /\ svc_pc' = "done"
    /\ svc_log' = Append(svc_log, Effect("request_refresh", ""))
    /\ UNCHANGED <<coordvars, svc_call, reading, envvars>>

\* Mutant: a successful call is written into the published snapshot.
ServiceApiCompletes_Optimistic(answer) ==
    /\ svc_pc = "api_call"
    /\ RequestCompletes(answer)
    /\ svc_pc' = "done"
    /\ LET result == ResultOf(api_op, request(answer)) IN
       IF result.kind = "return"
       THEN /\ svc_log' = Append(svc_log, Effect("request_refresh", ""))
            /\ data' = TickTickData(data.projects, <<>>)
       ELSE /\ svc_log' = Append(svc_log, Effect("log_error", result.err))
            /\ data' = data
    /\ UNCHANGED <<now, previous_tasks, notified_due_soon, outcome, pc,
                   projects_data, idx, projects, all_tasks, current_task_ids,
                   raised, fetched_completed, fetched_active, fired, repeat,
                   run_notified, reentry, trace, svc_call, reading,
                   envvars>>

\* The API call of the handler ends.  When it returned, the handler
\* awaits coordinator.async_request_refresh(); when it raised, `except
\* Exception` logs the error.  Either way the handler returns.
HandlerReturns(answer) ==
    /\ svc_pc = "api_call"
    /\ RequestCompletes(answer)
    /\ svc_pc' = "done"
    /\ LET result == ResultOf(api_op, request(answer)) IN
       svc_log' = Append(svc_log,
                         IF result.kind = "return"
                         THEN Effect("request_refresh", "")
                         ELSE Effect("log_error", result.err))
    /\ UNCHANGED <<coordvars, svc_call, reading>>

\* The same, seen from the adapters: the provider is not modelled.
ServiceApiCompletes(answer) ==
    /\ HandlerReturns(answer)
    /\ UNCHANGED envvars

-----------------------------------------------------------------------------
(* sensor.py and calendar.py: reads of the published snapshot *)

\* datetime.date(): the day a time of the local clock falls on
DateOf(d) == [tz |-> "date", t |-> d.t \div 86400]

\* sum(1 for task in self.tasks if task.due_date and task.due_date < now)
\* with now = datetime.now(), a naive datetime: the generator is consumed
\* in order, and the comparison with an aware due date raises TypeError.
RECURSIVE CountOverdue(_, _, _, _)
CountOverdue(tasks, i, n, at) ==
    IF i > Len(tasks)
    THEN Return([type |-> "int", len |-> n])
    ELSE IF tasks[i].due_date = None
    THEN CountOverdue(tasks, i + 1, n, at)
    ELSE IF RaisesTypeError(tasks[i].due_date)
    THEN Raise("TypeError",
               <<"can't compare offset-naive and offset-aware datetimes">>)
    ELSE CountOverdue(tasks, i + 1,
                      IF tasks[i].due_date.t < at THEN n + 1 ELSE n, at)

\* TickTickProject.overdue_count
overdue_count(project, at) == CountOverdue(project.tasks, 1, 0, at)

\* TickTickProject.due_today_count: task.due_date.date() == today compares
\* two dates, which never raises.
due_today_count(project, at) ==
    LET today == DateOf([tz |-> "naive", t |-> at])
    IN Return([type |-> "int",
               len |-> Cardinality({i \in 1..Len(project.tasks) :
                          /\ project.tasks[i].due_date # None
                          /\ DateOf(project.tasks[i].due_date) = today})])

PRIORITY_MAP(priority) ==
    CASE priority = 0 -> "none"
      [] priority = 1 -> "low"
      [] priority = 3 -> "medium"
      [] priority = 5 -> "high"
      [] OTHER -> "none"

\* TickTickProjectSensor.name
SensorName(snapshot, project_id) ==
    IF project_id \in Keys(snapshot.projects)
    THEN Lookup(snapshot.projects, project_id).name
    ELSE "Unknown Project"

\* TickTickProjectSensor.native_value (task_count of the project)
SensorNativeValue(snapshot, project_id) ==
    IF project_id \in Keys(snapshot.projects)
    THEN Len(Lookup(snapshot.projects, project_id).tasks)
    ELSE 0

\* Mutant: the flag of the host is not consulted.
last_update_success_Always == TRUE

\* DataUpdateCoordinator.last_update_success: True until a refresh fails,
\* False from then until one succeeds.  (A cancelled refresh leaves the
\* flag as it was; the specifications that read it cancel none.)
last_update_success == outcome \in {"none", "success"}

\* TickTickProjectSensor.available
SensorAvailable(snapshot, project_id) ==
    last_update_success /\ project_id \in Keys(snapshot.projects)

\* TickTickProjectSensor.extra_state_attributes: {} without project, else
\* the dict of lines 123-131 (color is not modelled); reading
\* overdue_count may raise.
SensorExtraStateAttributes(snapshot, project_id, at) ==
    IF project_id \notin Keys(snapshot.projects)
    THEN Return([type |-> "dict", len |-> 0, project_id |-> project_id])
    ELSE LET project == Lookup(snapshot.projects, project_id)
             overdue == overdue_count(project, at)
         IN IF overdue.kind = "raise" THEN overdue
            ELSE Return(
                   [type |-> "dict", len |-> 7, project_id |-> project_id,
                    attrs |->
                      [project_id |-> project.id,
                       project_name |-> project.name,
                       task_count |-> Len(project.tasks),
                       overdue_count |-> overdue.value.len,
                       due_today_count |->
                           due_today_count(project, at).value.len,
                       tasks |->
                         [i \in 1..Len(project.tasks) |->
                            [id |-> project.tasks[i].id,
                             title |-> project.tasks[i].title,
                             due_date |->
                                 IF project.tasks[i].due_date # None
                                 THEN IsoFormat(project.tasks[i].due_date)
                                 ELSE EventNone,
                             priority |->
                                 PRIORITY_MAP(project.tasks[i].priority),
                             is_all_day |-> project.tasks[i].is_all_day]]]])

\* A property of the sensor of a project is read.
SensorRead(project_id, attribute) ==
    /\ attribute \in {"name", "native_value", "available",
                      "extra_state_attributes"}
    /\ reading' = [entity |-> "sensor", attribute |-> attribute,
                   value |->
                     CASE attribute = "name" ->
                            [type |-> "str", len |-> 0,
                             str |-> SensorName(data, project_id)]
                       [] attribute = "native_value" ->
                            [type |-> "int",
                             len |-> SensorNativeValue(data, project_id)]
                       [] attribute = "available" ->
                            [type |-> "bool", len |-> 0,
                             project_id |-> project_id,
                             bool |-> SensorAvailable(data, project_id)]
                       [] attribute = "extra_state_attributes" ->
                            [type |-> "result", len |-> 0,
                             project_id |-> project_id,
                             result |-> SensorExtraStateAttributes(
                                            data, project_id, now)]]
    /\ UNCHANGED <<coordvars, apivars, svc_pc, svc_call, svc_log,
                   envvars>>

\* dt_util.as_local: a naive datetime is taken as local time.
AsLocal(d) == [tz |-> "aware", t |-> d.t]

Capitalize(name) ==
    CASE name = "low" -> "Low"
      [] name = "medium" -> "Medium"
      [] name = "high" -> "High"
      [] OTHER -> name

\* TickTickCalendar._build_description, as the list of its parts (tasks
\* carry no content here).
BuildDescription(snapshot, task) ==
    (IF PRIORITY_MAP(task.priority) # "none"
     THEN <<"Priority: " \o Capitalize(PRIORITY_MAP(task.priority))>>
     ELSE <<>>)
    \o (IF task.project_id \in Keys(snapshot.projects)
        THEN <<"Project: "
               \o Lookup(snapshot.projects, task.project_id).name>>
        ELSE <<>>)

\* TickTickCalendar._task_to_event
TaskToEvent(snapshot, task) ==
    LET due_date == IF task.due_date.tz = "naive"
                    THEN AsLocal(task.due_date) ELSE task.due_date
    IN IF task.is_all_day
       THEN [start |-> DateOf(due_date),
             end |-> [tz |-> "date", t |-> DateOf(due_date).t + 1],
             summary |-> task.title,
             description |-> BuildDescription(snapshot, task),
             uid |-> task.id]
       ELSE [start |-> due_date,
             end |-> [tz |-> "aware", t |-> due_date.t + 3600],
             summary |-> task.title,
             description |-> BuildDescription(snapshot, task),
             uid |-> task.id]

\* TickTickCalendar._get_events_in_range
GetEventsInRange(snapshot, start_date, end_date) ==
    LET start == IF start_date.tz = "naive" THEN AsLocal(start_date)
                                            ELSE start_date
        end == IF end_date.tz = "naive" THEN AsLocal(end_date) ELSE end_date
        InRange(task) ==
            /\ task.due_date # None
            /\ LET task_due == IF task.due_date.tz = "naive"
                               THEN AsLocal(task.due_date) ELSE task.due_date
               IN IF task.is_all_day
                  THEN /\ DateOf(start).t <= DateOf(task_due).t
                       /\ DateOf(task_due).t <= DateOf(end).t
                  ELSE start.t <= task_due.t /\ task_due.t <= end.t
        hits == SelectSeq(snapshot.tasks, InRange)
    IN [i \in 1..Len(hits) |-> TaskToEvent(snapshot, hits[i])]

\* The ranges the calendar is asked for.
QueryRanges ==
    { <<[tz |-> "naive", t |-> 0], [tz |-> "naive", t |-> 1830]>>,
      <<[tz |-> "aware", t |-> 1860], [tz |-> "aware", t |-> 3600]>> }

\* TickTickCalendar.async_get_events
CalendarQuery(start_date, end_date) ==
    /\ reading' = [entity |-> "calendar", attribute |-> "async_get_events",
                   value |-> [type |-> "list",
                              len |-> Len(GetEventsInRange(data, start_date,
                                                           end_date)),
                              events |-> GetEventsInRange(data, start_date,
                                                          end_date)]]
    /\ UNCHANGED <<coordvars, apivars, svc_pc, svc_call, svc_log,
                   envvars>>

-----------------------------------------------------------------------------
(* The adapters next to a coordinator that refreshes *)

\* Answers of the provider to the refreshes.
SvcProjectLists == {<<RawProject("p1")>>, <<RawProject("p2")>>}

SvcTasksData ==
    { <<>>,
      <<RawTask("t2", "p1", {"title", "dueDate", "priority", "status"},
                "Call mom", [fmt |-> "iso", t |-> 1830], 3, 0)>>,
      <<RawTask("t2", "p2", {"title", "dueDate", "priority", "status"},
                "Call mom", [fmt |-> "iso", t |-> 1830], 3, 0)>> }

\* Answers of the transport to the API call of a handler.
SvcAnswers ==
    { Response(200, "{}"), Response(204, ""),
      Response(500, "Internal Server Error"), Failure("TimeoutError") }

ServiceNext ==
    \/ StartRefresh
    \/ \E resp \in SvcProjectLists : GetProjectsReturn(resp)
    \/ \E tasks_data \in SvcTasksData : GetProjectWithTasksReturn(tasks_data)
    \/ \E call \in ServiceCalls : \E has_coordinator \in BOOLEAN :
           ServiceCall(call, has_coordinator)
    \/ \E answer \in SvcAnswers : ServiceApiCompletes(answer)
    \/ \E project_id \in {"p1", "p2"} :
           \E attribute \in {"name", "native_value"} :
               SensorRead(project_id, attribute)
    \/ \E range \in QueryRanges : CalendarQuery(range[1], range[2])

ServiceSpec == Init /\ [][ServiceNext]_vars

-----------------------------------------------------------------------------
(* TickTickProject.overdue_count and due_today_count on their own *)

\* Task records a project may hold: no due date, an unparsable one, naive
\* ones in the past, later today and tomorrow, and an aware one.
CountedRaws ==
    { RawTask("t1", "p1", {}, "", NoString, 0, 0),
      RawTask("t1", "p1", {"dueDate"}, "", [fmt |-> "invalid", t |-> 0], 0, 0),
      RawTask("t1", "p1", {"dueDate"}, "", [fmt |-> "iso", t |-> 0], 0, 0),
      RawTask("t1", "p1", {"dueDate"}, "", [fmt |-> "iso", t |-> 1830], 0, 0),
      RawTask("t1", "p1", {"dueDate"}, "", [fmt |-> "iso", t |-> 90000], 0, 0),
      RawTask("t1", "p1", {"dueDate"}, "", [fmt |-> "isoZ", t |-> 600], 0, 0) }

CountedProjects ==
    { TickTickProject(RawProject("p1"), tasks) :
        tasks \in {<<>>} \cup {<<from_api(a)>> : a \in CountedRaws}
                  \cup {<<from_api(a), from_api(b)>> :
                           a \in CountedRaws, b \in CountedRaws} }

\* One of the two counts of a project is read at the current time.
ReadCount(project, attribute) ==
    /\ attribute \in {"overdue_count", "due_today_count"}
    /\ reading' = [entity |-> "project", attribute |-> attribute,
                   value |-> [type |-> "count", len |-> 0,
                              project |-> project, at |-> now,
                              result |-> IF attribute = "overdue_count"
                                         THEN overdue_count(project, now)
                                         ELSE due_today_count(project, now)]]
    /\ UNCHANGED <<coordvars, apivars, svc_pc, svc_call, svc_log,
                   envvars>>

CountNext ==
    \/ \E project \in CountedProjects :
           \E attribute \in {"overdue_count", "due_today_count"} :
               ReadCount(project, attribute)
    \/ Tick

CountSpec == Init /\ [][CountNext]_vars

-----------------------------------------------------------------------------
(* The coordinator and the service handlers against one provider *)

\* The task records TickTick may hold: t1 lives in project p2, t2 in
\* project p1, with a due date without offset or with one.
ProviderRecords ==
    { RawTask("t1", "p2", {"title", "dueDate", "priority", "status"},
              "Pay rent", [fmt |-> "iso", t |-> 1830], 5, 0),
      RawTask("t2", "p1", {"title", "dueDate", "priority", "status"},
              "Call mom", [fmt |-> "iso", t |-> 1830], 3, 0),
      RawTask("t2", "p1", {"title", "dueDate", "priority", "status"},
              "Call mom", [fmt |-> "isoZ", t |-> 1830], 1, 0) }

ActiveIds(held) == {r.id : r \in held}

\* GET /project/{pid}/data: the active tasks of the project.
ProviderAnswer(held, pid) ==
    LET ids == IterOrder({r.id : r \in {h \in held : h.projectId = pid}})
    IN [i \in 1..Len(ids) |-> CHOOSE r \in held : r.id = ids[i]]

\* A task is created at TickTick (by any client), between two refreshes.
ProviderAdds(r) ==
    /\ pc = "idle"
    /\ r.id \notin ActiveIds(provider)
    /\ provider' = provider \cup {r}
    /\ UNCHANGED <<coordvars, apivars, svcvars, served, entities, entry>>

\* A task is completed or deleted at TickTick by another client.
ProviderRemoves(id) ==
    /\ pc = "idle"
    /\ id \in ActiveIds(provider)
    /\ provider' = {r \in provider : r.id # id}
    /\ UNCHANGED <<coordvars, apivars, svcvars, served, entities, entry>>

\* A refresh starts.  It is the refresh a handler requested when a
\* request is pending; events an in-flight refresh fired for the served
\* task since the provider served it are remembered.
RefreshStarts ==
    /\ RefreshStart
    /\ served' =
          IF served.phase = "requested"
          THEN [served EXCEPT
                  !.phase = "running",
                  !.before =
                      IF served.inflight
                      THEN Cardinality(
                               {i \in 1..Len(fired) :
                                  /\ fired[i].type = EVENT_TASK_COMPLETED
                                  /\ fired[i].task_id = served.task})
                      ELSE 0]
          ELSE NoServed
    /\ UNCHANGED <<apivars, svcvars, provider, entities, entry>>

\* GET /project answers with the two projects.
FetchProjects ==
    GetProjectsReturn(<<RawProject("p1"), RawProject("p2")>>)

\* GET /project/{pid}/data answers with what the provider holds.
FetchTasks ==
    /\ pc = "get_project_with_tasks"
    /\ GetProjectWithTasksReturn(
           ProviderAnswer(provider, projects_data[idx].id))

\* The complete_task and delete_task calls for task t1.
ProviderCalls ==
    { [service |-> "complete_task",
       data |-> [task_id |-> "t1", project_id |-> "p2"]],
      [service |-> "delete_task",
       data |-> [task_id |-> "t1", project_id |-> "p2"]] }

ProviderAnswers == {Response(200, "{}"), Response(500, "Internal Server Error")}

\* A handler calls the API for a service call.
ProviderCall(call) == ServiceCall(call, TRUE)

\* The provider answers the API call of the handler: on success the task
\* is no longer active there, and the handler requests a refresh.  The
\* call is remembered when it ended a task that was active at the provider
\* and is in the published snapshot.
ProviderServes(answer) ==
    /\ HandlerReturns(answer)
    /\ LET result == ResultOf(api_op, request(answer))
           id == svc_call.data.task_id
       IN IF result.kind = "return"
          THEN /\ provider' = {r \in provider : r.id # id}
               /\ served' = IF /\ id \in ActiveIds(provider)
                               /\ id \in Keys(data.tasks)
                            THEN [task |-> id, phase |-> "requested",
                                  inflight |-> pc # "idle", before |-> 0]
                            ELSE NoServed
          ELSE UNCHANGED <<provider, served>>
    /\ UNCHANGED <<entities, entry>>

ProviderNext ==
    \/ RefreshStarts
    \/ FetchProjects
    \/ \E err \in ApiErrors : GetProjectsRaise(err)
    \/ FetchTasks
    \/ GetProjectWithTasksRaise(TickTickApiError)
    \/ \E r \in ProviderRecords : ProviderAdds(r)
    \/ \E id \in TaskIds : ProviderRemoves(id)
    \/ \E call \in ProviderCalls : ProviderCall(call)
    \/ \E answer \in ProviderAnswers : ProviderServes(answer)
    \/ Tick

ProviderSpec == Init /\ [][ProviderNext]_vars

-----------------------------------------------------------------------------
(* __init__.py: set-up and reload of the config entry, sensor.py: the      *)
(* sensor platform                                                         *)

\* Task lists the provider answers with while the entry is set up and
\* reloaded.
LifeTasksData ==
    { <<>>,
      <<RawTask("t2", "p1", {"title", "dueDate", "priority", "status"},
                "Call mom", [fmt |-> "iso", t |-> 1830], 3, 0)>>,
      <<RawTask("t1", "p2", {"title", "dueDate", "priority", "status"},
                "Pay rent", [fmt |-> "iso", t |-> 1830], 5, 0)>>,
      <<RawTask("t1", "p2", {}, "", NoString, 0, 0),
        RawTask("t2", "p2", {"title", "dueDate", "priority", "status"},
                "Call mom", [fmt |-> "iso", t |-> 1830], 3, 0)>>,
      <<RawTask("t2", "p2", {"title", "dueDate", "priority", "status"},
                "Call mom", [fmt |-> "isoZ", t |-> 1830], 1, 0)>> }

\* Mutant: the new instance takes over the id sets of the one it replaces.
Setup_KeepsSets ==
    /\ pc = "idle"
    /\ entry.state \in {"none", "loaded", "not_ready"}
    /\ entry' = [state |-> "first_refresh", earlier |-> notified_due_soon]
    /\ data' = NoData
    /\ outcome' = "none"
    /\ repeat' = FALSE
    /\ run_notified' = {}
    /\ reentry' = {}
    /\ pc' = "get_projects"
    /\ projects_data' = <<>>
    /\ idx' = 0
    /\ projects' = <<>>
    /\ all_tasks' = <<>>
    /\ current_task_ids' = {}
    /\ raised' = <<>>
    /\ fetched_completed' = {}
    /\ fetched_active' = {}
    /\ fired' = <<>>
    /\ trace' = <<>>
    /\ entities' = <<>>
    /\ UNCHANGED <<now, previous_tasks, notified_due_soon, apivars, svcvars,
                   provider, served>>

\* async_setup_entry up to the await of the first refresh, at start-up,
\* when the set-up is retried, and when async_update_options reloads the
\* entry: the platforms of the old instance are unloaded, a new
\* coordinator is constructed (empty id sets, no data) and
\* async_config_entry_first_refresh enters _async_update_data.
Setup ==
    /\ pc = "idle"
    /\ entry.state \in {"none", "loaded", "not_ready"}
    /\ entry' = [state |-> "first_refresh", earlier |-> notified_due_soon]
    /\ previous_tasks' = {}
    /\ notified_due_soon' = {}
    /\ data' = NoData
    /\ outcome' = "none"
    /\ repeat' = FALSE
    /\ run_notified' = {}
    /\ reentry' = {}
    /\ pc' = "get_projects"
    /\ projects_data' = <<>>
    /\ idx' = 0
    /\ projects' = <<>>
    /\ all_tasks' = <<>>
    /\ current_task_ids' = {}
    /\ raised' = <<>>
    /\ fetched_completed' = {}
    /\ fetched_active' = {}
    /\ fired' = <<>>
    /\ trace' = <<>>
    /\ entities' = <<>>
    /\ UNCHANGED <<now, apivars, svcvars, provider, served>>

\* sensor.py async_setup_entry, lines 29-35: one sensor per project of
\* the snapshot.
SensorSetup(snapshot) ==
    [i \in 1..Len(snapshot.projects) |-> snapshot.projects[i].id]

\* The first refresh has ended.  When it failed,
\* async_config_entry_first_refresh raises ConfigEntryNotReady and the
\* instance is dropped; else the platforms are set up.
FirstRefreshEnds ==
    /\ entry.state = "first_refresh"
    /\ pc = "idle"
    /\ IF outcome = "success"
       THEN /\ entry' = [entry EXCEPT !.state = "loaded"]
            /\ entities' = SensorSetup(data)
       ELSE /\ entry' = [entry EXCEPT !.state = "not_ready"]
            /\ UNCHANGED entities
    /\ UNCHANGED <<coordvars, apivars, svcvars, provider, served>>

\* A later refresh of a loaded entry.
LoadedRefresh ==
    /\ entry.state = "loaded"
    /\ StartRefresh

\* Mutant: the listener adds a sensor for every project of the snapshot.
async_check_new_projects_AddsAll(ents, snapshot) ==
    ents \o SensorSetup(snapshot)

\* sensor.py async_check_new_projects, lines 38-58: the entities list
\* after the listener ran.
async_check_new_projects(ents, snapshot) ==
    LET current_project_ids == {ents[i] : i \in 1..Len(ents)}
        new == SelectSeq(SensorSetup(snapshot),
                         LAMBDA project_id :
                             project_id \notin current_project_ids)
    IN ents \o new

\* The coordinator calls its listeners after an update.
ListenerRuns ==
    /\ entry.state = "loaded"
    /\ pc = "idle"
    /\ entities' = async_check_new_projects(entities, data)
    /\ UNCHANGED <<coordvars, apivars, svcvars, provider, served, entry>>

LifecycleNext ==
    \/ Setup
    \/ \E resp \in ProjectLists : GetProjectsReturn(resp)
    \/ \E err \in ApiErrors : GetProjectsRaise(err)
    \/ \E tasks_data \in LifeTasksData :
           GetProjectWithTasksReturn(tasks_data)
    \/ GetProjectWithTasksRaise(TickTickApiError)
    \/ FirstRefreshEnds
    \/ LoadedRefresh
    \/ ListenerRuns
    \/ Tick

LifecycleSpec == Init /\ [][LifecycleNext]_vars

-----------------------------------------------------------------------------
(* The project sensors next to a coordinator whose refreshes can fail *)

SensorAttributes ==
    {"name", "native_value", "available", "extra_state_attributes"}

SensorNext ==
    \/ StartRefresh
    \/ \E resp \in ProjectLists : GetProjectsReturn(resp)
    \/ \E err \in ApiErrors : GetProjectsRaise(err)
    \/ \E tasks_data \in LifeTasksData :
           GetProjectWithTasksReturn(tasks_data)
    \/ GetProjectWithTasksRaise(TickTickApiError)
    \/ \E project_id \in {"p1", "p2"} :
           \E attribute \in SensorAttributes :
               SensorRead(project_id, attribute)
    \/ Tick

SensorSpec == Init /\ [][SensorNext]_vars

-----------------------------------------------------------------------------
(* Vocabulary of the properties *)

\* Positions of the events of one type about one task id.
EventsAbout(events, type, id) ==
    {i \in 1..Len(events) : events[i].type = type /\ events[i].task_id = id}

TopLevelFailed == \E i \in 1..Len(raised) : raised[i].call = "get_projects"

\* This step ends a refresh.
RefreshEnds == pc # "idle" /\ pc' = "idle"

\* This step ends a refresh that got past the fetches, so that it ran
\* _fire_task_events on the active set it built (current_task_ids').
ReachesDiff == RefreshEnds /\ ~TopLevelFailed' /\ outcome' # "cancelled"

\* What the wall clock says about a due date, whatever its tzinfo.
TrulyDueSoon(due, at) ==
    due # None /\ at < due.t /\ due.t <= at + DEFAULT_DUE_SOON_MINUTES * 60

-----------------------------------------------------------------------------
(* Properties *)

\* C1: when a refresh succeeds right after a refresh that succeeded, and it
\* was given the same data (so that it builds the snapshot already
\* published), it fires no task_created and no task_completed event.
C1_NoDiffEventsOnIdenticalData ==
    repeat => \A i \in 1..Len(fired) :
                  fired[i].type \notin {EVENT_TASK_CREATED,
                                        EVENT_TASK_COMPLETED}

C1_Witness == repeat /\ pc = "idle" /\ Keys(data.tasks) = TaskIds

\* C2: a refresh that reaches the diff fires exactly one task_created event
\* for each id of currentIds \ previousTaskIds and none for any other id,
\* and the event carries the id, project id, title, due date (or None) and
\* priority of the task just fetched under that id.
C2_CreatedExactlyForNewIds ==
    [][ReachesDiff =>
         \A id \in TaskIds :
            LET about == EventsAbout(fired', EVENT_TASK_CREATED, id) IN
            IF id \in current_task_ids' \ previous_tasks
            THEN /\ Cardinality(about) = 1
                 /\ \A i \in about :
                      LET task == Lookup(all_tasks', id) IN
                      fired'[i] =
                        [type |-> EVENT_TASK_CREATED,
                         task_id |-> id,
                         project_id |-> task.project_id,
                         title |-> task.title,
                         due_date |-> IF task.due_date.tz = "none"
                                      THEN EventNone
                                      ELSE [fmt |-> IF task.due_date.tz = "aware"
                                                    THEN "iso+00:00" ELSE "iso",
                                            t |-> task.due_date.t],
                         priority |-> task.priority]
            ELSE about = {}]_vars

C2_Witness ==
    /\ pc = "idle"
    /\ current_task_ids = TaskIds
    /\ EventsAbout(fired, EVENT_TASK_CREATED, "t1") # {}
    /\ EventsAbout(fired, EVENT_TASK_CREATED, "t2") = {}

\* C3: a refresh that reaches the diff fires exactly one task_completed
\* event, carrying the id and the time of the refresh, for each id that
\* was in the active set of the refresh before and is not in its own, and
\* none for any other id; afterwards previousTaskIds is its own active set,
\* so it holds none of those ids.
C3_CompletedExactlyForGoneIds ==
    [][ReachesDiff =>
         /\ previous_tasks' = current_task_ids'
         /\ \A id \in TaskIds :
               LET about == EventsAbout(fired', EVENT_TASK_COMPLETED, id) IN
               IF id \in previous_tasks /\ id \notin current_task_ids'
               THEN /\ Cardinality(about) = 1
                    /\ \A i \in about :
                         fired'[i] = [type |-> EVENT_TASK_COMPLETED,
                                      task_id |-> id,
                                      completed_at |-> [fmt |-> "iso",
                                                        t |-> now]]
                    /\ id \notin previous_tasks'
               ELSE about = {}]_vars

C3_Witness ==
    /\ pc = "idle"
    /\ EventsAbout(fired, EVENT_TASK_COMPLETED, "t1") # {}
    /\ "t1" \notin previous_tasks
    /\ "t2" \in previous_tasks

\* C4: when get_projects raises an Auth error or any other API error, the
\* refresh ends as update-failed, the published snapshot stays, no event
\* is fired and previousTaskIds and notifiedDueSoonIds keep their values.
C4_TopLevelFailureLeavesState ==
    [][(pc = "get_projects" /\ raised' # raised) =>
         /\ pc' = "idle"
         /\ outcome' = "update_failed"
         /\ data' = data
         /\ fired' = <<>>
         /\ previous_tasks' = previous_tasks
         /\ notified_due_soon' = notified_due_soon]_vars

C4_Witness ==
    /\ pc = "idle"
    /\ TopLevelFailed
    /\ raised[1].err = TickTickApiError
    /\ outcome = "update_failed"
    /\ Keys(data.tasks) # {}
    /\ notified_due_soon # {}

AuthRaised == \E i \in 1..Len(raised) : IsTickTickAuthError(raised[i].err)

\* C5: a refresh in which an API call raised an Auth error -- be it
\* get_projects or a get_project_with_tasks -- ends as update-failed and
\* has fired nothing; the error is never turned into an empty task list.
C5_AuthErrorFailsRefresh ==
    (pc = "idle" /\ AuthRaised) => (outcome = "update_failed" /\ fired = <<>>)

\* Some get_project_with_tasks of this refresh raised, and every exception
\* raised in it is a per-project API error that is not an Auth error.
OnlyPerProjectApiErrors ==
    /\ raised # <<>>
    /\ \A i \in 1..Len(raised) :
          raised[i].call # "get_projects" /\ raised[i].err = TickTickApiError

\* C6: a refresh whose project list arrived and in which the task fetch of
\* some project P raised an API error succeeds: the published snapshot is
\* the one built from the answers, it has every project of the list, and
\* P has an empty task list in it.
C6_PartialFailureStillSucceeds ==
    (pc = "idle" /\ OnlyPerProjectApiErrors) =>
        /\ outcome = "success"
        /\ data = TickTickData(projects, all_tasks)
        /\ \A i \in 1..Len(raised) :
              /\ raised[i].call \in Keys(data.projects)
              /\ Lookup(data.projects, raised[i].call).tasks = <<>>

\* C7: over the refreshes of one coordinator, a task fires task_due_soon
\* at most once in each run of refreshes that list it as active: a refresh
\* fires at most one such event per task, and none for a task that was
\* notified earlier in its current run.
C7_DueSoonAtMostOncePerRun ==
    [][ReachesDiff =>
         \A id \in TaskIds :
            LET about == EventsAbout(fired', EVENT_TASK_DUE_SOON, id) IN
            /\ Cardinality(about) <= 1
            /\ (id \in run_notified /\ id \in current_task_ids')
                  => about = {}]_vars

C7_Witness ==
    /\ pc = "idle"
    /\ repeat
    /\ "t1" \in run_notified
    /\ "t1" \in Keys(data.tasks)
    /\ TrulyDueSoon(Lookup(data.tasks, "t1").due_date, now)
    /\ EventsAbout(fired, EVENT_TASK_DUE_SOON, "t1") = {}

\* C8: the due-soon scan of a refresh fires exactly one task_due_soon event
\* for every task of the new active set that has a due date with
\* now < due <= now + threshold and whose id is not in notifiedDueSoonIds,
\* and adds that id to the set; it fires none for any other task.
C8_DueSoonExactlyInWindow ==
    [][ReachesDiff =>
         \A id \in current_task_ids' :
            LET task == Lookup(all_tasks', id)
                about == EventsAbout(fired', EVENT_TASK_DUE_SOON, id)
            IN IF TrulyDueSoon(task.due_date, now)
                  /\ id \notin notified_due_soon
               THEN Cardinality(about) = 1 /\ id \in notified_due_soon'
               ELSE about = {}]_vars

\* C9: after a refresh that completed the due-soon step (a successful
\* one), notifiedDueSoonIds holds only ids of tasks of the new snapshot.
C9_NotifiedWithinSnapshot ==
    outcome = "success" => notified_due_soon \subseteq Keys(data.tasks)

C9_Witness ==
    /\ pc = "idle"
    /\ outcome = "success"
    /\ reentry = {"t1"}
    /\ EventsAbout(fired, EVENT_TASK_COMPLETED, "t1") # {}
    /\ notified_due_soon = {"t2"}

\* C10: a task id that was notified as due soon, then was absent from the
\* active set of a successful refresh, and then is listed again with a due
\* date inside the window, gets task_created and task_due_soon again in
\* the refresh that lists it again.
C10_ReentryNotifiesAgain ==
    [][ReachesDiff =>
         \A id \in reentry :
            (/\ id \in current_task_ids'
             /\ TrulyDueSoon(Lookup(all_tasks', id).due_date, now))
            => /\ EventsAbout(fired', EVENT_TASK_CREATED, id) # {}
               /\ EventsAbout(fired', EVENT_TASK_DUE_SOON, id) # {}]_vars

\* C11: no task with status 2 is in the flattened task mapping or in a
\* project's task list of the published snapshot, and a record that a
\* fetch of this refresh returned with status 2 is reported by no
\* task_created and by no task_due_soon event of the refresh.
C11_CompletedNeverPublished ==
    /\ \A i \in 1..Len(data.tasks) : data.tasks[i].status # 2
    /\ \A p \in 1..Len(data.projects) :
          \A i \in 1..Len(data.projects[p].tasks) :
             data.projects[p].tasks[i].status # 2
    /\ \A r \in fetched_completed : \A i \in 1..Len(fired) :
          fired[i].type \in {EVENT_TASK_CREATED, EVENT_TASK_DUE_SOON}
             => ~(/\ fired[i].task_id = r.id
                  /\ fired[i].project_id = r.projectId)

C11_Witness ==
    /\ pc = "idle"
    /\ outcome = "success"
    /\ {<<r.id, r.projectId>> : r \in fetched_completed}
          = {<<"t1", "p2">>, <<"t2", "p1">>}
    /\ Keys(data.tasks) = {"t2"}
    /\ EventsAbout(fired, EVENT_TASK_CREATED, "t2") # {}

\* The project task lists of a snapshot that hold a task with this id, as
\* <<project position, task position>> pairs.
ListedAt(snapshot, id) ==
    {<<p, i>> \in (1..Len(snapshot.projects)) \X (1..Len(TaskOrder)) :
        /\ i <= Len(snapshot.projects[p].tasks)
        /\ snapshot.projects[p].tasks[i].id = id}

\* C12: in the published snapshot every task of the flattened mapping is
\* in the task list of exactly one project, and no task id occurs twice
\* across the project task lists, whatever the provider answered.
C12_EachTaskInExactlyOneProject ==
    /\ \A id \in Keys(data.tasks) :
          Cardinality({pi[1] : pi \in ListedAt(data, id)}) = 1
    /\ \A id \in TaskIds : Cardinality(ListedAt(data, id)) <= 1

\* C13: every step that leaves a refresh in flight (suspended in a network
\* call) leaves the published snapshot, previousTaskIds and
\* notifiedDueSoonIds as they were and has fired no event, so they keep
\* the values they had when the refresh began; and a step that cancels
\* the refresh leaves them alone too, fires nothing and drops what was
\* fetched.
C13_InFlightRefreshIsPrivate ==
    [][/\ pc' # "idle" =>
            /\ UNCHANGED <<data, previous_tasks, notified_due_soon>>
            /\ fired' = <<>>
       /\ (RefreshEnds /\ outcome' = "cancelled") =>
            /\ UNCHANGED <<data, previous_tasks, notified_due_soon>>
            /\ fired' = <<>>
            /\ projects' = <<>> /\ all_tasks' = <<>>
            /\ current_task_ids' = {}]_vars

\* A refresh that was cancelled earlier left t1 published and notified;
\* the refresh now in flight is suspended in its second task fetch having
\* built a different task set.
C13_Witness ==
    /\ outcome = "cancelled"
    /\ pc = "get_project_with_tasks"
    /\ idx = 2
    /\ Keys(all_tasks) = {"t2"}
    /\ Keys(data.tasks) = {"t1"}
    /\ notified_due_soon = {"t1"}

\* Some piece of the message is this text.
Contains(message, text) == \E i \in 1..Len(message) : message[i] = text

\* C14: the HTTP status of the answer decides how _request ends: 401
\* raises the Auth error; 429 raises an API error saying "Rate limit
\* exceeded"; any other status >= 400 raises an API error whose message
\* has the status code and the body; 204 returns None; any other status
\* returns the parsed body.  The Auth error reaches the caller of the
\* method as it is, not as a connection or generic error.
C14_StatusDecidesOutcome ==
    (api_pc = "done" /\ api_answer.kind = "response") =>
        LET st == api_answer.status
            body == api_answer.body
            out == api_outcome
        IN /\ st = 401 =>
                /\ out.kind = "raise" /\ out.err = "TickTickAuthError"
                /\ api_result = out
                /\ ~Contains(out.message, "Connection error: ")
                /\ ~Contains(out.message, "API error ")
           /\ st = 429 =>
                /\ out.kind = "raise" /\ out.err = "TickTickApiError"
                /\ Contains(out.message, "Rate limit exceeded")
           /\ (st >= 400 /\ st \notin {401, 429}) =>
                /\ out.kind = "raise" /\ out.err = "TickTickApiError"
                /\ Contains(out.message, "API error ")
                /\ Contains(out.message, ToString(st))
                /\ Contains(out.message, body)
           /\ st = 204 => (out.kind = "return" /\ out.value.type = "None")
           /\ (st < 400 /\ st # 204) =>
                /\ out.kind = "return"
                /\ body = "[]" => out.value = [type |-> "list", len |-> 0]
                /\ body = "[{}]" => out.value = [type |-> "list", len |-> 1]
                /\ body = "{}" => out.value = [type |-> "dict", len |-> 0]

C14_Witness ==
    /\ api_pc = "done"
    /\ api_op = "get_project_with_tasks"
    /\ api_answer.status = 500
    /\ api_answer.body = "Internal Server Error"
    /\ api_result.kind = "raise"

\* C15: whatever exception the transport raises for a request (DNS, TCP,
\* TLS failure or timeout), the API client call raises an error of the
\* API error family whose message says "Connection error".
C15_TransportFailuresAreWrapped ==
    (api_pc = "done" /\ api_answer.kind = "failure") =>
        /\ api_result.kind = "raise"
        /\ api_result.err \in {"TickTickApiError", "TickTickAuthError"}
        /\ Contains(api_result.message, "Connection error: ")

\* C16: a call of a method of the API client issues one transport request
\* and, whatever the answer to it -- a success, an error status or a
\* transport failure -- ends without issuing another.
C16_OneRequestPerCall ==
    [][/\ (api_pc' # "idle" /\ api_op' \in ApiMethods) =>
            Len(api_requests') = 1
       /\ api_pc = "request" =>
            (api_pc' = "done" /\ api_requests' = api_requests)]_vars

C16_Witness ==
    /\ api_pc = "done"
    /\ api_op = "delete_task"
    /\ api_answer.exc = "ClientConnectorError"
    /\ api_result.kind = "raise"
    /\ Len(api_requests) = 1

\* Positions of an effect in the log of a handler.
EffectsIn(log, effect) == {i \in 1..Len(log) : log[i].effect = effect}

\* This step starts a handler / ends the API call of a handler.
HandlerStarts ==
    /\ svc_pc # "api_call"
    /\ <<svc_pc', svc_call', svc_log'>> # <<svc_pc, svc_call, svc_log>>

HandlerResumes == svc_pc = "api_call" /\ svc_pc' # "api_call"

\* A project id is given, or the published snapshot has a project.
ProjectResolved(call, snapshot) ==
    \/ call.service # "create_task"
    \/ ("project_id" \in DOMAIN call.data /\ call.data.project_id # "")
    \/ Len(snapshot.projects) > 0

\* C17: a handler of a mutating service that has a coordinator and a
\* resolved project id makes one API client call before anything else;
\* when that call returns it requests one coordinator refresh; a handler
\* never makes more than one API call or more than one refresh request,
\* and never requests the refresh before the API call or while the call
\* has not returned.
C17_OneApiCallThenOneRefreshRequest ==
    [][/\ (HandlerStarts /\ svc_call'.coordinator
             /\ ProjectResolved(svc_call', data)) =>
            /\ svc_pc' = "api_call"
            /\ svc_log' = <<[effect |-> "api_call",
                             what |-> svc_call'.service]>>
            /\ api_pc' = "request" /\ api_op' = svc_call'.service
            /\ Len(api_requests') = 1
       /\ (HandlerResumes /\ api_result'.kind = "return") =>
            /\ svc_pc' = "done"
            /\ svc_log' = <<[effect |-> "api_call",
                             what |-> svc_call.service],
                            [effect |-> "request_refresh", what |-> ""]>>
            /\ api_requests' = api_requests
       /\ Cardinality(EffectsIn(svc_log', "api_call")) <= 1
       /\ Cardinality(EffectsIn(svc_log', "request_refresh")) <= 1
       /\ \A i \in EffectsIn(svc_log', "request_refresh") :
             /\ \E j \in EffectsIn(svc_log', "api_call") : j < i
             /\ api_pc' = "done" /\ api_result'.kind = "return"]_vars

\* create_task without a project id, sent to the first project of the
\* snapshot (none is called "inbox"), then one refresh request.
C17_Witness ==
    /\ svc_pc = "done"
    /\ svc_call.service = "create_task"
    /\ "project_id" \notin DOMAIN svc_call.data
    /\ Len(svc_log) = 2
    /\ svc_log[2].effect = "request_refresh"
    /\ api_requests[1].json.projectId = "p2"

\* C18: when the API call of a handler raises, whatever the error, the
\* handler logs it and returns: it makes no further API call and requests
\* no refresh.
C18_FailedCallIsLoggedOnly ==
    [][(HandlerResumes /\ api_result'.kind = "raise") =>
         /\ svc_pc' = "done"
         /\ svc_log' = <<[effect |-> "api_call", what |-> svc_call.service],
                         [effect |-> "log_error", what |-> api_result'.err]>>
         /\ api_pc' = "done"
         /\ api_requests' = api_requests]_vars

C18_Witness ==
    /\ svc_pc = "done"
    /\ svc_call.service = "complete_task"
    /\ api_result.err = "TimeoutError"
    /\ Len(svc_log) = 2
    /\ svc_log[2].effect = "log_error"

\* C19: a step of an adapter -- a service handler starting or resuming, a
\* sensor read, a calendar query -- leaves the published snapshot,
\* previousTaskIds and notifiedDueSoonIds as they are; the snapshot
\* changes only in the step that ends a refresh successfully.
C19_AdaptersNeverWriteCoordinatorState ==
    [][/\ (svcvars' # svcvars \/ apivars' # apivars) =>
            UNCHANGED <<data, previous_tasks, notified_due_soon>>
       /\ data' # data =>
            (pc # "idle" /\ pc' = "idle" /\ outcome' = "success")]_vars

\* A handler has succeeded and asked for a refresh, a refresh has since
\* published a task, and the calendar has been asked and returned it.
C19_Witness ==
    /\ svc_pc = "done"
    /\ EffectsIn(svc_log, "request_refresh") # {}
    /\ pc = "idle" /\ outcome = "success"
    /\ Keys(data.tasks) = {"t2"}
    /\ reading.entity = "calendar"
    /\ reading.value.len = 1

\* C20: the API client has a complete-subtask call that issues one
\* request and returns None on 204, and the service layer registers a
\* complete_subtask service whose schema requires task_id, parent_task_id
\* and project_id.
C20_CompleteSubtaskIsOffered ==
    /\ (api_op = "complete_subtask" /\ api_pc # "idle") =>
          /\ Len(api_requests) = 1
          /\ (api_pc = "done" /\ api_answer.status = 204) =>
                (api_result.kind = "return" /\ api_result.value.type = "None")
          /\ api_result.err # "AttributeError"
    /\ "complete_subtask" \in Services
    /\ RequiredKeys("complete_subtask")
          = {"task_id", "parent_task_id", "project_id"}

-----------------------------------------------------------------------------
(* C21: overdue_count is the number of the project's tasks whose due date  *)
(* is strictly before the current time, due_today_count the number of     *)
(* those due on the current calendar date; a task without due date counts *)
(* in neither, and both are returned without error whatever the due dates *)
(* are, timezone-aware ones included.                                      *)

C21_CountsAreReturned ==
    reading.entity = "project" =>
        LET tasks == reading.value.project.tasks
            at == reading.value.at
            dated == {i \in 1..Len(tasks) : tasks[i].due_date.tz # "none"}
            expected ==
                IF reading.attribute = "overdue_count"
                THEN {i \in dated : tasks[i].due_date.t < at}
                ELSE {i \in dated :
                        tasks[i].due_date.t \div 86400 = at \div 86400}
        IN /\ reading.value.result.kind = "return"
           /\ reading.value.result.value.len = Cardinality(expected)

-----------------------------------------------------------------------------
(* C22: a due-date string that cannot be parsed never causes an error: the *)
(* task is built with an absent due date, it is in the snapshot the        *)
(* refresh builds (and in the published one whenever the refresh           *)
(* publishes), and the refresh does not fail because of it -- a refresh    *)
(* that fails after its fetches holds a task with an aware due date.  A    *)
(* due-date string with a trailing "Z" is parsed as that instant, with an  *)
(* offset (UTC).                                                           *)

C22_UnparsableDueDateIsAbsent ==
    \A r \in fetched_active :
        LET built == UNION {{projects[k].tasks[i] :
                                i \in 1..Len(projects[k].tasks)} :
                            k \in 1..Len(projects)}
            mine == {task \in built : /\ task.id = r.id
                                      /\ task.project_id = r.projectId
                                      /\ task.title = r.title}
        IN ("dueDate" \in r.keys /\ r.dueDate.fmt \in {"invalid", "isoZ"}) =>
              /\ mine # {}
              /\ r.id \in Keys(all_tasks)
              /\ r.dueDate.fmt = "invalid" =>
                    /\ \A task \in mine : task.due_date = None
                    /\ (pc = "idle" /\ ~TopLevelFailed) =>
                          \/ /\ outcome = "success"
                             /\ data = TickTickData(projects, all_tasks)
                             /\ r.id \in Keys(data.tasks)
                             /\ Lookup(data.tasks, r.id) \in mine
                          \/ \E j \in 1..Len(all_tasks) :
                                 all_tasks[j].due_date.tz = "aware"
              /\ r.dueDate.fmt = "isoZ" =>
                    \A task \in mine :
                        task.due_date = [tz |-> "aware", t |-> r.dueDate.t]

\* A published snapshot holds the task whose due-date text was unparsable
\* (the only record titled "Water plants"), without a due date.
C22_Witness ==
    /\ pc = "idle"
    /\ outcome = "success"
    /\ \E i \in 1..Len(data.tasks) :
           /\ data.tasks[i].title = "Water plants"
           /\ data.tasks[i].due_date = None

-----------------------------------------------------------------------------
(* C23: within one refresh the steps run in this order: all fetches, then  *)
(* every task_created notification, then every task_completed one, then    *)
(* the replacement of the previous task ids, then every task_due_soon      *)
(* notification and the pruning of the notified ids, and last the return   *)
(* of the new snapshot; the published snapshot changes only with that      *)
(* return, so it is still the old one while the notifications go out.      *)

StepRank(step) ==
    CASE step = "get_projects" -> 0
      [] step = "get_project_with_tasks" -> 1
      [] step = EVENT_TASK_CREATED -> 2
      [] step = EVENT_TASK_COMPLETED -> 3
      [] step = "set_previous" -> 4
      [] step = EVENT_TASK_DUE_SOON -> 5
      [] step = "prune" -> 6
      [] step = "return" -> 7

StepsAt(steps, ranks) ==
    SelectSeq(steps, LAMBDA step : StepRank(step) \in ranks)

-----------------------------------------------------------------------------
(* C24: a refresh whose project list arrived and whose per-project fetches *)
(* each returned or raised an API error runs to its end and publishes the  *)
(* snapshot it built: no step after the fetches fails, whatever due dates  *)
(* the active tasks carry, timezone-aware ones included.                   *)

C24_FetchedRefreshPublishes ==
    [][ReachesDiff =>
          /\ outcome' = "success"
          /\ data' = TickTickData(projects', all_tasks')
          /\ Len(trace') > 0 /\ trace'[Len(trace')] = "return"
      ]_vars

-----------------------------------------------------------------------------
(* C25: whenever a refresh has ended, however it ended, the previous task  *)
(* ids are the task ids of the published snapshot; a refresh that          *)
(* publishes no snapshot has fired no notification and has changed neither *)
(* the previous task ids nor the notified ids.                             *)

C25_PreviousIdsArePublishedIds ==
    [][RefreshEnds =>
          /\ previous_tasks' = Keys(data'.tasks)
          /\ outcome' # "success" =>
                /\ fired' = <<>>
                /\ UNCHANGED <<data, previous_tasks, notified_due_soon>>
      ]_vars

-----------------------------------------------------------------------------
(* C26: a refresh fires task_completed for a task id only if the task is   *)
(* no longer among the active tasks of the provider, even when a           *)
(* per-project fetch fails in between; so a task that stays active never   *)
(* gets task_completed (nor, after it, a second task_created or            *)
(* task_due_soon).                                                         *)

C26_CompletedOnlyWhenGoneAtProvider ==
    [][ReachesDiff =>
          \A id \in ActiveIds(provider') :
              EventsAbout(fired', EVENT_TASK_COMPLETED, id) = {}
      ]_vars

-----------------------------------------------------------------------------
(* C27: after a complete_task or delete_task service call for a task t of  *)
(* the published snapshot succeeded at the provider, once the refresh the  *)
(* handler requested has succeeded (t still being gone at the provider):   *)
(* the published snapshot does not hold t, exactly one task_completed for  *)
(* t was fired since the provider served the call, and t is neither in the *)
(* previous task ids nor in the notified ids.                              *)

C27_ServedTaskLeavesOnRefresh ==
    [][(/\ RefreshEnds
        /\ served.phase = "running"
        /\ outcome' = "success"
        /\ served.task \notin ActiveIds(provider')) =>
          /\ served.task \notin Keys(data'.tasks)
          /\ served.before
                + Cardinality(EventsAbout(fired', EVENT_TASK_COMPLETED,
                                          served.task)) = 1
          /\ served.task \notin previous_tasks'
          /\ served.task \notin notified_due_soon'
      ]_vars

-----------------------------------------------------------------------------
(* C28: a new coordinator instance, at start-up and after every reload,    *)
(* starts with empty previous task ids and notified ids; its first         *)
(* refresh, when it succeeds, fires task_created once for every task of    *)
(* the snapshot, no task_completed, and task_due_soon once for every task  *)
(* of the snapshot that is inside the due-soon window, whether or not the  *)
(* instance it replaced had notified that task.                            *)

C28_NewInstanceStartsOver ==
    [][/\ (entry.state # "first_refresh" /\ entry'.state = "first_refresh")
          => (previous_tasks' = {} /\ notified_due_soon' = {})
       /\ (RefreshEnds /\ entry.state = "first_refresh"
                       /\ outcome' = "success") =>
             /\ \A id \in Keys(data'.tasks) :
                    Cardinality(EventsAbout(fired', EVENT_TASK_CREATED, id))
                        = 1
             /\ \A i \in 1..Len(fired') :
                    fired'[i].type # EVENT_TASK_COMPLETED
             /\ \A i \in 1..Len(data'.tasks) :
                    LET task == data'.tasks[i]
                        due_soon == EventsAbout(fired', EVENT_TASK_DUE_SOON,
                                                task.id)
                    IN IF TrulyDueSoon(task.due_date, now)
                       THEN Cardinality(due_soon) = 1
                       ELSE due_soon = {}
      ]_vars

\* The first refresh after a reload has notified a task as due soon that
\* the replaced instance had notified already.
C28_Witness ==
    /\ entry.state = "first_refresh"
    /\ pc = "idle"
    /\ outcome = "success"
    /\ \E id \in entry.earlier :
           /\ EventsAbout(fired, EVENT_TASK_DUE_SOON, id) # {}
           /\ EventsAbout(fired, EVENT_TASK_CREATED, id) # {}

-----------------------------------------------------------------------------
(* C29: a project sensor is available exactly when the last refresh        *)
(* succeeded and its project is in the published snapshot; a refresh that  *)
(* fails keeps the previous snapshot, so every sensor is unavailable until *)
(* a refresh succeeds again; a sensor whose project is absent from the     *)
(* snapshot reports the state 0 and empty attributes without raising.      *)

C29_AvailableIffFreshAndPresent ==
    [][/\ \A project_id \in {"p1", "p2"} :
              LET present == project_id \in Keys(data.projects) IN
              /\ SensorRead(project_id, "available") =>
                     reading'.value.bool = (outcome = "success" /\ present)
              /\ (SensorRead(project_id, "native_value") /\ ~present) =>
                     (reading'.value.type = "int" /\ reading'.value.len = 0)
              /\ (SensorRead(project_id, "extra_state_attributes")
                     /\ ~present) =>
                     /\ reading'.value.result.kind = "return"
                     /\ reading'.value.result.value.type = "dict"
                     /\ reading'.value.result.value.len = 0
       /\ (RefreshEnds /\ outcome' # "success") => data' = data
      ]_vars

\* A sensor was read as unavailable after a failed refresh, while the
\* retained snapshot still holds its project.
C29_Witness ==
    /\ pc = "idle"
    /\ outcome \in {"update_failed", "exception"}
    /\ reading.entity = "sensor"
    /\ reading.attribute = "available"
    /\ ~reading.value.bool
    /\ reading.value.project_id \in Keys(data.projects)

-----------------------------------------------------------------------------
(* C30: no two project sensors have the same project id; when the update   *)
(* listener has run, every project id of the published snapshot has        *)
(* exactly one sensor; while the entry stays loaded a sensor is added only *)
(* for a project id that has none, and none is removed, also when its      *)
(* project is no longer in the snapshot.                                   *)

SensorsOf(ents, project_id) == {i \in 1..Len(ents) : ents[i] = project_id}

C30_OneSensorPerProject ==
    [][/\ \A project_id \in {"p1", "p2"} :
              Cardinality(SensorsOf(entities', project_id)) <= 1
       /\ ListenerRuns =>
              \A project_id \in Keys(data.projects) :
                  Cardinality(SensorsOf(entities', project_id)) = 1
       /\ (entry.state = "loaded" /\ entry'.state = "loaded") =>
              /\ Len(entities) <= Len(entities')
              /\ SubSeq(entities', 1, Len(entities)) = entities
              /\ \A i \in (Len(entities) + 1)..Len(entities') :
                     /\ SensorsOf(entities, entities'[i]) = {}
                     /\ entities'[i] \in Keys(data'.projects)
      ]_vars

\* The listener added the sensor of p1 to the one of p2, and both are
\* kept although the published snapshot has no project any more.
C30_Witness ==
    /\ entry.state = "loaded"
    /\ pc = "idle"
    /\ outcome = "success"
    /\ entities = <<"p2", "p1">>
    /\ data.projects = <<>>

====
